---- MODULE Spec2Model ----
(***************************************************************************)
(* Model of the statblock component (src/unnamed/part_000): resolution of  *)
(* the column count, column width and dice flags from the creature, the    *)
(* layout and the plugin settings, and the resize-driven column layout     *)
(* (debounced ResizeObserver callback, mount, destroy).                    *)
(***************************************************************************)
EXTENDS Integers, Sequences, FiniteSets

VARIABLES
    monster,        \* the creature prop: columns, columnWidth, forceColumns, dice, render
    layout,         \* the layout prop: columns, columnWidth, forceColumns
    plugin,         \* canUseDiceRoller, settings.useDice, settings.renderDice
    maxColumns,     \* const maxColumns
    columnWidth,    \* const columnWidth
    canDice,        \* const canDice
    canRender,      \* const canRender
    columns,        \* $: columns
    ready,          \* $: ready
    phase,          \* "props" | "created" | "mounted" | "destroyed"
    container,      \* bind:this={container}: "unbound" | "bound" | "detached" | "null"
    containerWidth, \* container.clientWidth
    observer,       \* the ResizeObserver: "idle" | "observing" | "disconnected"
    notify,         \* the observer holds an undelivered resize notification
    timer,          \* the debounce timer of onResize is armed
    pc,             \* "idle" | "onResize": the debounced callback is running
    setColumnsDone, \* history: setColumns has returned at least once
    resizes,        \* number of size changes of the container so far
    image,          \* monster.image
    path,           \* monster.path
    note,           \* monster.note
    context,        \* the context prop: the path of the note being rendered
    monsterStore,   \* what monsterStore last published: the creature and its image
    reset,          \* the reset store
    genPc,          \* the image generation handler: "idle" | "selecting" |
                    \* "generating" | "generatingFromPhoto" | "updating"
    imagePath,      \* const imagePath of the running handler
    sourceFile,     \* let sourceFile of the running applyGeneratedImage
    frontmatter,    \* the image recorded in each file's frontmatter
    genOutcome,     \* history: how the last handler's generation ended
    rejected        \* a menu handler's promise was rejected

vars == <<monster, layout, plugin, maxColumns, columnWidth, canDice, canRender,
          columns, ready, phase, container, containerWidth, observer, notify,
          timer, pc, setColumnsDone, resizes, image, path, note, context,
          monsterStore, reset, genPc, imagePath, sourceFile, frontmatter,
          genOutcome, rejected>>

\* the state of the menu's handlers and of what they act on
menuVars == <<image, path, note, context, monsterStore, reset, genPc, imagePath,
              sourceFile, frontmatter, genOutcome, rejected>>

----------------------------------------------------------------------------
(* Bounds of the model *)

\* container widths range over 0 .. 200 * MaxWidthUnits
MaxWidthUnits == 6

\* at most this many size changes of the container in one behaviour
MaxResizes == 3

----------------------------------------------------------------------------
(* JavaScript values: undefined, numbers (integers and NaN), strings (as    *)
(* sequences of one-character strings) and booleans.                        *)

Undefined == [t |-> "undefined", n |-> 0, s |-> <<>>]
NaN == [t |-> "nan", n |-> 0, s |-> <<>>]
Num(n) == [t |-> "number", n |-> n, s |-> <<>>]
Str(s) == [t |-> "string", n |-> 0, s |-> s]
Bool(b) == [t |-> "boolean", n |-> IF b THEN 1 ELSE 0, s |-> <<>>]
Null == [t |-> "null", n |-> 0, s |-> <<>>]
\* an array, s its elements (strings and arrays)
Arr(s) == [t |-> "array", n |-> 0, s |-> s]

DigitChars == <<"0", "1", "2", "3", "4", "5", "6", "7", "8", "9">>

IsDigit(c) == \E i \in 1..Len(DigitChars) : DigitChars[i] = c

DigitValue(c) == (CHOOSE i \in 1..Len(DigitChars) : DigitChars[i] = c) - 1

RECURSIVE NatToChars(_)
NatToChars(n) ==
    IF n < 10 THEN <<DigitChars[n + 1]>>
    ELSE Append(NatToChars(n \div 10), DigitChars[(n % 10) + 1])

RECURSIVE DigitsToNat(_)
DigitsToNat(s) ==
    IF s = <<>> THEN 0
    ELSE 10 * DigitsToNat(SubSeq(s, 1, Len(s) - 1)) + DigitValue(s[Len(s)])

AllDigits(s) == \A i \in 1..Len(s) : IsDigit(s[i])

\* Number(string): "" is 0, an optionally signed run of digits is its value,
\* anything else over the model's alphabet is NaN
StringToNumber(s) ==
    IF s = <<>> THEN Num(0)
    ELSE IF AllDigits(s) THEN Num(DigitsToNat(s))
    ELSE IF s[1] = "-" /\ Len(s) > 1 /\ AllDigits(Tail(s))
         THEN Num(0 - DigitsToNat(Tail(s)))
    ELSE NaN

\* Number(v)
ToNumber(v) ==
    CASE v.t = "number" -> v
      [] v.t = "nan" -> NaN
      [] v.t = "undefined" -> NaN
      [] v.t = "boolean" -> Num(v.n)
      [] v.t = "string" -> StringToNumber(v.s)

\* `${v}`
TemplateString(v) ==
    CASE v.t = "number" ->
            IF v.n < 0 THEN <<"-">> \o NatToChars(0 - v.n) ELSE NatToChars(v.n)
      [] v.t = "nan" -> <<"N", "a", "N">>
      [] v.t = "undefined" -> <<"u", "n", "d", "e", "f", "i", "n", "e", "d">>
      [] v.t = "boolean" ->
            IF v.n = 1 THEN <<"t", "r", "u", "e">> ELSE <<"f", "a", "l", "s", "e">>
      [] v.t = "string" -> v.s

\* s.replace(/\D/g, "")
StripNonDigits(s) == SelectSeq(s, IsDigit)

\* a ?? b
Nullish(a, b) == IF a.t \in {"undefined", "null"} THEN b ELSE a

\* the truthiness of v
Truthy(v) ==
    CASE v.t = "number" -> v.n # 0
      [] v.t = "nan" -> FALSE
      [] v.t = "undefined" -> FALSE
      [] v.t = "boolean" -> v.n = 1
      [] v.t = "string" -> v.s # <<>>
      [] v.t = "null" -> FALSE
      [] v.t = "array" -> TRUE

\* a && b
JsAnd(a, b) == IF Truthy(a) THEN b ELSE a

\* isNaN(v)
IsNaN(v) == ToNumber(v).t = "nan"

\* v > 0
GreaterThanZero(v) == ToNumber(v).t = "number" /\ ToNumber(v).n > 0

Min(a, b) == IF a < b THEN a ELSE b
Max(a, b) == IF a > b THEN a ELSE b

----------------------------------------------------------------------------
(* Layout resolution: the constants computed when the component is created *)

FallbackColumns == 2
FallbackColumnWidth == 400

MaxColumnsOf(m, l) ==
    IF ~IsNaN(Nullish(m.columns, l.columns))
       /\ GreaterThanZero(Nullish(m.columns, l.columns))
    THEN ToNumber(Nullish(m.columns, l.columns)).n
    ELSE FallbackColumns

MonsterColumnWidth(m) == ToNumber(Str(StripNonDigits(TemplateString(m.columnWidth))))

ColumnWidthOf(m, l) ==
    IF ~IsNaN(Nullish(MonsterColumnWidth(m), l.columnWidth))
       /\ GreaterThanZero(Nullish(MonsterColumnWidth(m), l.columnWidth))
    THEN MonsterColumnWidth(m).n
    ELSE FallbackColumnWidth


\* mutant: the creature's dice declaration is ignored
CanDiceOf_IgnoresOverride(m, p) == JsAnd(p.canUseDiceRoller, p.useDice)

CanDiceOf(m, p) == JsAnd(p.canUseDiceRoller, Nullish(m.dice, p.useDice))

CanRenderOf(m, p) == Nullish(m.render, p.renderDice)

----------------------------------------------------------------------------
(* Inputs *)

Flags == {Undefined, Bool(TRUE), Bool(FALSE)}

Monsters(cols, widths, forces, dices, renders) ==
    [columns : cols, columnWidth : widths, forceColumns : forces,
     dice : dices, render : renders]

Layouts(cols, widths, forces) ==
    [columns : cols, columnWidth : widths, forceColumns : forces]

Plugins(rollers, useDices, renderDices) ==
    [canUseDiceRoller : rollers, useDice : useDices, renderDice : renderDices]

\* every kind of creature override: absent, positive, zero, negative,
\* non-numeric text, numeric text, text with a unit
ResolveMonsters ==
    Monsters({Undefined, Num(3), Num(1), Num(0), Num(-1),
              Str(<<"a", "b", "c">>), Str(<<"3">>)},
             {Undefined, Num(200), Num(0), Num(-200),
              Str(<<"2", "0", "0", "p", "x">>), Str(<<"a", "b", "c">>)},
             {Undefined}, Flags, Flags)

ResolveLayouts ==
    Layouts({Undefined, Num(1), Num(3), Num(0)},
            {Undefined, Num(300), Num(0)}, {Undefined})

ResolvePlugins ==
    Plugins({Bool(TRUE), Bool(FALSE)}, {Bool(TRUE), Bool(FALSE)},
            {Bool(TRUE), Bool(FALSE)})

\* the creatures, layouts and settings of the resize behaviours
MountedMonsters ==
    Monsters({Undefined, Num(3)}, {Undefined, Str(<<"2", "0", "0", "p", "x">>)},
             Flags, {Undefined}, {Undefined})

MountedLayouts == Layouts({Undefined, Num(1)}, {Undefined}, Flags)

MountedPlugins == Plugins({Bool(TRUE)}, {Bool(TRUE)}, {Bool(TRUE)})

\* the widths the container can take: the multiples of 200 and their
\* predecessors
Widths == {w \in {200 * k - d : k \in 0..MaxWidthUnits, d \in {0, 1}} : w >= 0}

----------------------------------------------------------------------------
(* The component *)

\* monster.forceColumns ?? layout.forceColumns
Forced == Truthy(Nullish(monster.forceColumns, layout.forceColumns))


\* mutant: the lower clamp is missing
ResolveColumns_NoLowerClamp(width, cw, mc) == Min(width \div cw, mc)

\* mutant: the upper clamp is missing
ResolveColumns_NoUpperClamp(width, cw, mc) == Max(width \div cw, 1)

\* Math.min(Math.max(Math.floor(width / columnWidth), 1), maxColumns)
ResolveColumns(width, cw, mc) == Min(Max(width \div cw, 1), mc)

\* {#if ready}: the statblock content is in the document
Displayed == ready

\* a call of the debounced onResize (debounce(cb, 100, false)): the timer is
\* armed if it is not, and left as it is when it is already running
DebouncedCall == timer' = TRUE

\* the script block runs: the constants and the reactive declarations
Construct ==
    /\ phase = "props"
    /\ phase' = "created"
    /\ maxColumns' = MaxColumnsOf(monster, layout)
    /\ columnWidth' = ColumnWidthOf(monster, layout)
    /\ canDice' = CanDiceOf(monster, plugin)
    /\ canRender' = CanRenderOf(monster, plugin)
    /\ columns' = MaxColumnsOf(monster, layout)
    /\ ready' = FALSE
    /\ UNCHANGED <<monster, layout, plugin, container, containerWidth, observer,
                   notify, timer, pc, setColumnsDone, resizes>>
    /\ UNCHANGED menuVars

\* mutant: onMount starts observing without the initial onResize() call
onMount_NoInitialCall ==
    /\ phase = "created"
    /\ pc = "idle"
    /\ phase' = "mounted"
    /\ container' = "bound"
    /\ observer' = "observing"
    /\ notify' \in (IF containerWidth > 0 THEN {TRUE} ELSE BOOLEAN)
    /\ UNCHANGED <<monster, layout, plugin, maxColumns, columnWidth, canDice,
                   canRender, columns, ready, containerWidth, pc, timer,
                   setColumnsDone, resizes>>
    /\ UNCHANGED menuVars

\* mutant: onMount sets ready itself, before any computation
onMount_ReadyAtMount ==
    /\ phase = "created"
    /\ pc = "idle"
    /\ phase' = "mounted"
    /\ container' = "bound"
    /\ DebouncedCall
    /\ observer' = "observing"
    /\ notify' \in (IF containerWidth > 0 THEN {TRUE} ELSE BOOLEAN)
    /\ ready' = TRUE
    /\ UNCHANGED <<monster, layout, plugin, maxColumns, columnWidth, canDice,
                   canRender, columns, containerWidth, pc,
                   setColumnsDone, resizes>>
    /\ UNCHANGED menuVars

\* onMount: onResize(); observer.observe(container). The observer reports the
\* element's size once after observe() unless its box is empty (width 0 and
\* height 0; the height is not modelled, so width 0 may or may not report).
onMount ==
    /\ phase = "created"
    /\ pc = "idle"
    /\ phase' = "mounted"
    /\ container' = "bound"
    /\ DebouncedCall
    /\ observer' = "observing"
    /\ notify' \in (IF containerWidth > 0 THEN {TRUE} ELSE BOOLEAN)
    /\ UNCHANGED <<monster, layout, plugin, maxColumns, columnWidth, canDice,
                   canRender, columns, ready, containerWidth, pc,
                   setColumnsDone, resizes>>
    /\ UNCHANGED menuVars

\* the container's box changes (w = containerWidth: only its height does);
\* an observing ResizeObserver queues a notification
Resize ==
    /\ phase = "mounted"
    /\ pc = "idle"
    /\ resizes < MaxResizes
    /\ \E w \in Widths : containerWidth' = w
    /\ resizes' = resizes + 1
    /\ notify' = (notify \/ observer = "observing")
    /\ UNCHANGED <<monster, layout, plugin, maxColumns, columnWidth, canDice,
                   canRender, columns, ready, phase, container, observer,
                   timer, pc, setColumnsDone>>
    /\ UNCHANGED menuVars

\* new ResizeObserver(onResize): the observer delivers its notification by
\* calling the debounced onResize
ObserverCallback ==
    /\ observer = "observing"
    /\ notify
    /\ pc = "idle"
    /\ notify' = FALSE
    /\ DebouncedCall
    /\ UNCHANGED <<monster, layout, plugin, maxColumns, columnWidth, canDice,
                   canRender, columns, ready, phase, container, containerWidth,
                   observer, pc, setColumnsDone, resizes>>
    /\ UNCHANGED menuVars

\* the 100 ms of the debounce have passed: the timer is cleared and the
\* callback is entered. Nothing cancels the timer, whatever the phase.
TimerExpire ==
    /\ timer
    /\ pc = "idle"
    /\ timer' = FALSE
    /\ pc' = "onResize"
    /\ UNCHANGED <<monster, layout, plugin, maxColumns, columnWidth, canDice,
                   canRender, columns, ready, phase, container, containerWidth,
                   observer, notify, setColumnsDone, resizes>>
    /\ UNCHANGED menuVars

\* setColumns reads container.clientWidth of a container that is null
SetColumnsThrows == ~Forced /\ container = "null"

\* mutant: the force-columns branch is missing
setColumns_NoForceBranch ==
    /\ columns' = ResolveColumns(containerWidth, columnWidth, maxColumns)
    /\ UNCHANGED <<observer, notify>>

\* mutant: the observer is disconnected on every call, forced or not
setColumns_AlwaysDisconnects ==
    /\ columns' = (IF Forced THEN maxColumns
                   ELSE ResolveColumns(containerWidth, columnWidth, maxColumns))
    /\ observer' = "disconnected"
    /\ notify' = FALSE

\* setColumns, when it returns
setColumns ==
    IF Forced
    THEN /\ columns' = maxColumns
         /\ observer' = "disconnected"
         /\ notify' = FALSE
    ELSE /\ columns' = ResolveColumns(containerWidth, columnWidth, maxColumns)
         /\ UNCHANGED <<observer, notify>>

\* the debounced callback: setColumns(); if (!ready) ready = true
onResize ==
    /\ pc = "onResize"
    /\ pc' = "idle"
    /\ IF SetColumnsThrows
       THEN UNCHANGED <<columns, observer, notify, ready, setColumnsDone>>
       ELSE /\ setColumns
            /\ ready' = TRUE
            /\ setColumnsDone' = TRUE
    /\ UNCHANGED <<monster, layout, plugin, maxColumns, columnWidth, canDice,
                   canRender, phase, container, containerWidth, timer, resizes>>
    /\ UNCHANGED menuVars

\* onDestroy: observer.disconnect(). The element leaves the document (its
\* clientWidth is 0 from then on); the bind:this reference is reset to null
\* at the framework's next flush, which may come before or after a pending
\* timer.
onDestroy ==
    /\ phase = "mounted"
    /\ pc = "idle"
    /\ phase' = "destroyed"
    /\ observer' = "disconnected"
    /\ notify' = FALSE
    /\ container' \in {"null", "detached"}
    /\ containerWidth' = 0
    /\ UNCHANGED <<monster, layout, plugin, maxColumns, columnWidth, canDice,
                   canRender, columns, ready, timer, pc, setColumnsDone, resizes>>
    /\ UNCHANGED menuVars

----------------------------------------------------------------------------
(* The menu: Reset Dice and the two image generation items *)

\* the files of the vault: the creature's own file, the file its note links
\* to, the note being rendered
PathFile == Str(<<"p", ".", "m", "d">>)
NoteFile == Str(<<"n", ".", "m", "d">>)
ContextFile == Str(<<"c", ".", "m", "d">>)
Files == {PathFile, NoteFile, ContextFile}

\* a link the vault resolves (to NoteFile) and one it does not
GoodLink == Str(<<"n">>)
DeadLink == Str(<<"x">>)

\* the image an earlier render left, and the path a generation returns
OldImage == Str(<<"o", "l", "d">>)
GeneratedPaths == {Str(<<"g", "1">>)}

\* monster.path, monster.note and the context, as the menu can meet them
PathInputs == {Undefined, PathFile}
NoteInputs == {Undefined, GoodLink, DeadLink, Arr(<<DeadLink, Arr(<<GoodLink>>)>>),
               Arr(<<GoodLink, DeadLink>>)}
ContextInputs == {ContextFile, Str(<<"c", ".", "t", "x", "t">>), Str(<<>>)}

\* the creatures, layouts and settings of the menu's behaviours
MenuMonsters ==
    Monsters({Undefined}, {Undefined}, {Undefined}, {Undefined, Bool(FALSE)},
             {Undefined})

MenuLayouts == Layouts({Undefined}, {Undefined}, {Undefined})

MenuPlugins == Plugins({Bool(TRUE)}, {Bool(TRUE)}, {Bool(TRUE)})

\* the creatures a new render can put in place of the current one
Replacements ==
    {[monster |-> m, image |-> OldImage, path |-> PathFile, note |-> Undefined] :
        m \in Monsters({Undefined}, {Undefined}, {Bool(TRUE)}, {Undefined},
                       {Undefined})}

\* array.flat(Infinity)
RECURSIVE Flat(_)
Flat(elems) ==
    IF elems = <<>> THEN <<>>
    ELSE (IF Head(elems).t = "array" THEN Flat(Head(elems).s) ELSE <<Head(elems)>>)
         \o Flat(Tail(elems))

\* Array.isArray(monster.note) ? monster.note.flat(Infinity).pop() : monster.note
NotePathOf(n) ==
    IF n.t = "array"
    THEN (IF Flat(n.s) = <<>> THEN Undefined ELSE Flat(n.s)[Len(Flat(n.s))])
    ELSE n

\* plugin.app.metadataCache.getFirstLinkpathDest(notePath, context), for the
\* vault above
GetFirstLinkpathDest(linkpath, ctx) == IF linkpath = GoodLink THEN NoteFile ELSE Null

\* s.endsWith(suffix)
EndsWith(s, suffix) ==
    /\ Len(s) >= Len(suffix)
    /\ SubSeq(s, Len(s) - Len(suffix) + 1, Len(s)) = suffix

\* mutant: a note that does not resolve falls through to the context
SourceFileOf_FallsThroughToContext(p, n, ctx) ==
    IF Truthy(p) THEN p
    ELSE IF Truthy(n) /\ GetFirstLinkpathDest(NotePathOf(n), ctx) # Null
         THEN GetFirstLinkpathDest(NotePathOf(n), ctx)
    ELSE IF Truthy(ctx) /\ EndsWith(ctx.s, <<".", "m", "d">>) THEN ctx
    ELSE Null

\* applyGeneratedImage: the sourceFile its if / else if chain leaves
SourceFileOf(p, n, ctx) ==
    IF Truthy(p) THEN p
    ELSE IF Truthy(n)
         THEN (IF Truthy(GetFirstLinkpathDest(NotePathOf(n), ctx))
               THEN GetFirstLinkpathDest(NotePathOf(n), ctx)
               ELSE Null)
    ELSE IF Truthy(ctx) /\ EndsWith(ctx.s, <<".", "m", "d">>) THEN ctx
    ELSE Null

\* the icons element and its menu are in the document ({#if ready}, icons)
MenuShown == phase = "mounted" /\ ready

\* the resize side of the component
layoutVars == <<monster, layout, plugin, maxColumns, columnWidth, canDice,
                canRender, columns, ready, phase, container, containerWidth,
                observer, notify, timer, setColumnsDone, resizes>>

\* mutant: the Reset Dice item is added whether or not dice are enabled
ResetDice_AlwaysAdded ==
    /\ MenuShown
    /\ pc = "idle"
    /\ reset' = TRUE
    /\ pc' = "resetDice"
    /\ UNCHANGED layoutVars
    /\ UNCHANGED <<image, path, note, context, monsterStore, genPc, imagePath,
                   sourceFile, frontmatter, genOutcome, rejected>>

\* Reset Dice, added if (canDice), is clicked: reset.set(true)
ResetDice ==
    /\ Truthy(canDice)
    /\ MenuShown
    /\ pc = "idle"
    /\ reset' = TRUE
    /\ pc' = "resetDice"
    /\ UNCHANGED layoutVars
    /\ UNCHANGED <<image, path, note, context, monsterStore, genPc, imagePath,
                   sourceFile, frontmatter, genOutcome, rejected>>

\* the rest of the Reset Dice handler: reset.set(false)
ResetDiceDone ==
    /\ pc = "resetDice"
    /\ reset' = FALSE
    /\ pc' = "idle"
    /\ UNCHANGED layoutVars
    /\ UNCHANGED <<image, path, note, context, monsterStore, genPc, imagePath,
                   sourceFile, frontmatter, genOutcome, rejected>>

\* "Generate AI Image with OpenAI" is clicked: generateAIImage runs up to its
\* await of OpenAIImageGenerator.generateMonsterImage
ClickGenerateAIImage ==
    /\ MenuShown
    /\ pc = "idle"
    /\ genPc = "idle"
    /\ genPc' = "generating"
    /\ genOutcome' = "none"
    /\ UNCHANGED layoutVars
    /\ UNCHANGED <<pc, image, path, note, context, monsterStore, reset, imagePath,
                   sourceFile, frontmatter, rejected>>

\* "Generate AI Image from Photo" is clicked: generateAIImageFromPhoto runs up
\* to its await of selectPhotoFile
ClickGenerateAIImageFromPhoto ==
    /\ MenuShown
    /\ pc = "idle"
    /\ genPc = "idle"
    /\ genPc' = "selecting"
    /\ genOutcome' = "none"
    /\ UNCHANGED layoutVars
    /\ UNCHANGED <<pc, image, path, note, context, monsterStore, reset, imagePath,
                   sourceFile, frontmatter, rejected>>

\* selectPhotoFile resolves: with no photo the handler returns, with one it
\* goes on to its await of generateMonsterImageFromPhoto
selectPhotoFile ==
    /\ pc = "idle"
    /\ genPc = "selecting"
    /\ \E photo \in {"none", "photo"} :
          IF photo = "none"
          THEN genPc' = "idle" /\ genOutcome' = "noPhoto"
          ELSE genPc' = "generatingFromPhoto" /\ genOutcome' = "none"
    /\ UNCHANGED layoutVars
    /\ UNCHANGED <<pc, image, path, note, context, monsterStore, reset, imagePath,
                   sourceFile, frontmatter, rejected>>

\* the generation returns imagePath and applyGeneratedImage runs up to its
\* await of updateCreatureFrontmatter, or to its end when it found no file
applyGeneratedImage ==
    /\ pc = "idle"
    /\ genPc \in {"generating", "generatingFromPhoto"}
    /\ genOutcome' = "returned"
    /\ \E p \in GeneratedPaths :
          /\ image' = p
          /\ monsterStore' = [monster |-> monster, image |-> p]
          /\ IF Truthy(SourceFileOf(path, note, context))
             THEN /\ genPc' = "updating"
                  /\ imagePath' = p
                  /\ sourceFile' = SourceFileOf(path, note, context)
             ELSE /\ genPc' = "idle"
                  /\ imagePath' = Undefined
                  /\ sourceFile' = Null
    /\ UNCHANGED layoutVars
    /\ UNCHANGED <<pc, path, note, context, reset, frontmatter, rejected>>

\* mutant: no try / catch around the generation: the rejection propagates
GenerationThrows_Propagates ==
    /\ pc = "idle"
    /\ genPc \in {"generating", "generatingFromPhoto"}
    /\ genPc' = "idle"
    /\ genOutcome' = "threw"
    /\ rejected' = TRUE
    /\ UNCHANGED layoutVars
    /\ UNCHANGED <<pc, image, path, note, context, monsterStore, reset, imagePath,
                   sourceFile, frontmatter>>

\* the generation throws: catch (error) { console.error(...) }, and the
\* handler returns
GenerationThrows ==
    /\ pc = "idle"
    /\ genPc \in {"generating", "generatingFromPhoto"}
    /\ genPc' = "idle"
    /\ genOutcome' = "threw"
    /\ UNCHANGED layoutVars
    /\ UNCHANGED <<pc, image, path, note, context, monsterStore, reset, imagePath,
                   sourceFile, frontmatter, rejected>>

\* updateCreatureFrontmatter returns: the file's frontmatter holds the image
\* if it says so; applyGeneratedImage and the handler return
UpdateReturns ==
    /\ pc = "idle"
    /\ genPc = "updating"
    /\ \E updated \in BOOLEAN :
          frontmatter' = IF updated
                         THEN [frontmatter EXCEPT ![sourceFile] = imagePath]
                         ELSE frontmatter
    /\ genPc' = "idle"
    /\ imagePath' = Undefined
    /\ sourceFile' = Null
    /\ UNCHANGED layoutVars
    /\ UNCHANGED <<pc, image, path, note, context, monsterStore, reset, genOutcome,
                   rejected>>

\* updateCreatureFrontmatter throws: the handler's catch logs it
UpdateThrows ==
    /\ pc = "idle"
    /\ genPc = "updating"
    /\ genPc' = "idle"
    /\ imagePath' = Undefined
    /\ sourceFile' = Null
    /\ UNCHANGED layoutVars
    /\ UNCHANGED <<pc, image, path, note, context, monsterStore, reset, frontmatter,
                   genOutcome, rejected>>

\* mutant: a new creature runs the reactive declarations again
ReplaceMonster_ResetsReady ==
    /\ phase = "mounted"
    /\ pc = "idle"
    /\ \E c \in Replacements :
          /\ monster' = c.monster
          /\ image' = c.image
          /\ path' = c.path
          /\ note' = c.note
          /\ monsterStore' = [monster |-> c.monster, image |-> c.image]
    /\ ready' = FALSE
    /\ columns' = maxColumns
    /\ UNCHANGED <<layout, plugin, maxColumns, columnWidth, canDice, canRender,
                   phase, container, containerWidth, observer, notify,
                   timer, pc, setColumnsDone, resizes>>
    /\ UNCHANGED <<context, reset, genPc, imagePath, sourceFile, frontmatter,
                   genOutcome, rejected>>

\* the monster prop is replaced: $: $monsterStore = monster. The constants
\* and the reactive declarations without dependencies are not evaluated again.
ReplaceMonster ==
    /\ phase = "mounted"
    /\ pc = "idle"
    /\ \E c \in Replacements :
          /\ monster' = c.monster
          /\ image' = c.image
          /\ path' = c.path
          /\ note' = c.note
          /\ monsterStore' = [monster |-> c.monster, image |-> c.image]
    /\ UNCHANGED <<layout, plugin, maxColumns, columnWidth, canDice, canRender,
                   columns, ready, phase, container, containerWidth, observer,
                   notify, timer, pc, setColumnsDone, resizes>>
    /\ UNCHANGED <<context, reset, genPc, imagePath, sourceFile, frontmatter,
                   genOutcome, rejected>>

----------------------------------------------------------------------------
(* Specifications *)

\* no menu handler is running and none has run
MenuIdle ==
    /\ reset = FALSE
    /\ genPc = "idle"
    /\ imagePath = Undefined
    /\ sourceFile = Null
    /\ frontmatter = [f \in Files |-> Undefined]
    /\ genOutcome = "none"
    /\ rejected = FALSE

\* a creature with no image, file or note, rendered in ContextFile
Fileless ==
    /\ image = Undefined
    /\ path = Undefined
    /\ note = Undefined
    /\ context = ContextFile
    /\ monsterStore = [monster |-> monster, image |-> Undefined]

\* the component's own state before the script block has run
Unset ==
    /\ maxColumns = 0
    /\ columnWidth = 0
    /\ canDice = Undefined
    /\ canRender = Undefined
    /\ columns = 0
    /\ ready = FALSE

Detached ==
    /\ container = "unbound"
    /\ observer = "idle"
    /\ notify = FALSE
    /\ timer = FALSE
    /\ pc = "idle"
    /\ setColumnsDone = FALSE
    /\ resizes = 0

\* layout resolution alone: any creature, layout and settings; the script
\* block resolves them
InitResolve ==
    /\ monster \in ResolveMonsters
    /\ layout \in ResolveLayouts
    /\ plugin \in ResolvePlugins
    /\ phase = "props"
    /\ containerWidth = 0
    /\ Unset
    /\ Detached
    /\ Fileless
    /\ MenuIdle

NextResolve == Construct

SpecResolve == InitResolve /\ [][NextResolve]_vars

\* the component after construction
Init ==
    /\ monster \in MountedMonsters
    /\ layout \in MountedLayouts
    /\ plugin \in MountedPlugins
    /\ phase = "created"
    /\ maxColumns = MaxColumnsOf(monster, layout)
    /\ columnWidth = ColumnWidthOf(monster, layout)
    /\ canDice = CanDiceOf(monster, plugin)
    /\ canRender = CanRenderOf(monster, plugin)
    /\ columns = MaxColumnsOf(monster, layout)
    /\ ready = FALSE
    /\ containerWidth \in Widths
    /\ Detached
    /\ Fileless
    /\ MenuIdle

Next ==
    \/ onMount
    \/ Resize
    \/ ObserverCallback
    \/ TimerExpire
    \/ onResize
    \/ onDestroy

Spec == Init /\ [][Next]_vars

\* the event loop runs every pending task: the mount that follows
\* construction, the observer's delivery, the timer and the callback it
\* has entered
LiveSpec ==
    /\ Init
    /\ [][Next]_vars
    /\ WF_vars(onMount)
    /\ WF_vars(ObserverCallback)
    /\ WF_vars(TimerExpire)
    /\ WF_vars(onResize)

\* the component after construction, with its menu: a creature without an
\* image, any file, note and context, dice enabled or not
InitMenu ==
    /\ monster \in MenuMonsters
    /\ layout \in MenuLayouts
    /\ plugin \in MenuPlugins
    /\ phase = "created"
    /\ maxColumns = MaxColumnsOf(monster, layout)
    /\ columnWidth = ColumnWidthOf(monster, layout)
    /\ canDice = CanDiceOf(monster, plugin)
    /\ canRender = CanRenderOf(monster, plugin)
    /\ columns = MaxColumnsOf(monster, layout)
    /\ ready = FALSE
    /\ containerWidth \in Widths
    /\ Detached
    /\ image = Undefined
    /\ path \in PathInputs
    /\ note \in NoteInputs
    /\ context \in ContextInputs
    /\ monsterStore = [monster |-> monster, image |-> image]
    /\ MenuIdle

NextMenu ==
    \/ onMount
    \/ Resize
    \/ ObserverCallback
    \/ TimerExpire
    \/ onResize
    \/ onDestroy
    \/ ResetDice
    \/ ResetDiceDone
    \/ ClickGenerateAIImage
    \/ ClickGenerateAIImageFromPhoto
    \/ selectPhotoFile
    \/ applyGeneratedImage
    \/ GenerationThrows
    \/ UpdateReturns
    \/ UpdateThrows
    \/ ReplaceMonster

SpecMenu == InitMenu /\ [][NextMenu]_vars

----------------------------------------------------------------------------
(* Properties *)

\* v is present and converts to a positive number
PositiveNumber(v) == v.t # "undefined" /\ ~IsNaN(v) /\ GreaterThanZero(v)

\* clamp(floor(w / cw), 1, mc), with the floor stated by its bounds
IsClampedQuotient(c, w, cw, mc) ==
    \E q \in 0..w :
        /\ q * cw <= w
        /\ w < (q + 1) * cw
        /\ c = (IF q < 1 THEN 1 ELSE IF q > mc THEN mc ELSE q)

\* C1: the resolved column count is the creature's columns override when it
\* is present and a positive number, otherwise the layout's default columns
\* when that is a positive number, otherwise 2 (so an override that is
\* present but not a positive number falls back to the layout default).
C1_ColumnsFallBackToLayout ==
    phase = "created" =>
        maxColumns =
            (IF PositiveNumber(monster.columns) THEN ToNumber(monster.columns).n
             ELSE IF PositiveNumber(layout.columns) THEN ToNumber(layout.columns).n
             ELSE 2)

\* C2: the resolved column width is the creature's columnWidth override
\* stripped of its non-digits when that is a positive number, otherwise the
\* layout's default columnWidth when one is set, otherwise 400.
C2_WidthFallsBackToLayout ==
    phase = "created" =>
        columnWidth =
            (IF MonsterColumnWidth(monster).n > 0 THEN MonsterColumnWidth(monster).n
             ELSE IF PositiveNumber(layout.columnWidth)
                  THEN ToNumber(layout.columnWidth).n
             ELSE 400)

\* C3, as claimed: whenever force-columns is set on the creature or on the
\* layout, columns equals maxColumns in every state.
C3_ForcedOnEitherSide ==
    (Truthy(monster.forceColumns) \/ Truthy(layout.forceColumns)) =>
        columns = maxColumns

\* C3, amended: whenever the effective force-columns flag (the creature's
\* forceColumns when it declares one, else the layout's) is true, columns
\* equals maxColumns in every state, whatever widths were measured.
C3_EffectiveForcePinsColumns ==
    (IF monster.forceColumns.t # "undefined"
     THEN monster.forceColumns = Bool(TRUE)
     ELSE layout.forceColumns = Bool(TRUE)) => columns = maxColumns

\* C3 witness: forced, three columns allowed, the callback has run after a
\* resize to a container narrower than one column, and columns is still 3
C3_Witness ==
    /\ phase = "mounted"
    /\ Forced
    /\ setColumnsDone
    /\ resizes > 0
    /\ containerWidth < columnWidth
    /\ maxColumns = 3
    /\ columns = 3

\* C4: when force-columns is not active, every execution of setColumns with
\* measured width w leaves columns = min(max(floor(w / columnWidth), 1),
\* maxColumns).
C4_ResizeRecomputesClamp ==
    [][(pc = "onResize" /\ ~Forced /\ ~SetColumnsThrows) =>
         IsClampedQuotient(columns', containerWidth, columnWidth, maxColumns)]_vars

\* C4 witness: unforced, the callback has measured a width of two to three
\* column widths with three columns allowed, and columns is 2
C4_Witness ==
    /\ phase = "mounted"
    /\ ~Forced
    /\ setColumnsDone
    /\ pc = "idle"
    /\ ~timer
    /\ maxColumns = 3
    /\ 2 * columnWidth <= containerWidth
    /\ containerWidth < 3 * columnWidth
    /\ columns = 2

\* C5: ready is false until the first setColumns has completed, and content
\* is displayed only while ready: no state displays content before a first
\* column computation.
C5_NoContentBeforeFirstComputation ==
    /\ ~setColumnsDone => ~ready
    /\ Displayed => setColumnsDone

\* C5 witness: content is displayed with a column count the callback
\* computed from the measured width
C5_Witness ==
    /\ phase = "mounted"
    /\ Displayed
    /\ ~Forced
    /\ setColumnsDone
    /\ columns < maxColumns

\* C6: after the component is destroyed the resize callback does not run,
\* and neither columns nor ready changes.
C6_NoCallbackAfterDestroy ==
    [][phase = "destroyed" =>
         (pc' = "idle" /\ columns' = columns /\ ready' = ready)]_vars

\* C7, as claimed: the creature's dice (render) declaration, when present, is
\* the value of canDice (canRender), whatever the settings and the dice
\* roller's availability; otherwise the default setting is.
C7_OverrideAlwaysWins ==
    phase = "created" =>
        /\ canDice = (IF monster.dice.t # "undefined" THEN monster.dice
                      ELSE plugin.useDice)
        /\ canRender = (IF monster.render.t # "undefined" THEN monster.render
                        ELSE plugin.renderDice)

\* C7, amended: canRender is the creature's render declaration when present,
\* else the renderDice setting; canDice is the creature's dice declaration
\* when present, else the useDice setting, provided the dice roller is
\* available, and false when it is not.
C7_OverrideWinsWhenRollerAvailable ==
    phase = "created" =>
        /\ canRender = (IF monster.render.t # "undefined" THEN monster.render
                        ELSE plugin.renderDice)
        /\ canDice = (IF plugin.canUseDiceRoller = Bool(FALSE) THEN Bool(FALSE)
                      ELSE IF monster.dice.t # "undefined" THEN monster.dice
                      ELSE plugin.useDice)

\* C7 witness: the creature declares dice against an unavailable dice roller
\* and render against the setting
C7_Witness ==
    /\ phase = "created"
    /\ monster.dice = Bool(TRUE)
    /\ plugin.canUseDiceRoller = Bool(FALSE)
    /\ canDice = Bool(FALSE)
    /\ monster.render = Bool(FALSE)
    /\ plugin.renderDice = Bool(TRUE)
    /\ canRender = Bool(FALSE)

\* C8, as claimed: the first setColumns has completed in every state in
\* which the observer has started observing.
C8_ComputedBeforeObserving == observer # "idle" => setColumnsDone

\* C8, amended: on mount the initial column computation is only scheduled
\* (the debounce timer is armed) when the observer starts observing; no
\* setColumns has run by then, and none ever runs before observe.
C8_ScheduledBeforeObserving ==
    [][/\ (observer = "idle" /\ observer' # "idle") =>
            (timer' /\ ~setColumnsDone' /\ pc' = "idle")
       /\ setColumnsDone' => observer' # "idle"]_vars

\* C8 witness: the observer is observing while the initial computation is
\* still pending
C8_Witness ==
    /\ phase = "mounted"
    /\ observer = "observing"
    /\ timer
    /\ ~setColumnsDone
    /\ ~ready

\* C9: mounted and unforced, after any finite sequence of resizes the
\* component reaches and stays in a state where columns is
\* min(max(floor(w / columnWidth), 1), maxColumns) for the final width w.
C9_ColumnsFollowFinalWidth ==
    <>[](\/ phase # "mounted"
         \/ Forced
         \/ IsClampedQuotient(columns, containerWidth, columnWidth, maxColumns))

\* C9 witness: every resize has happened, the last one after a first
\* computation, nothing is pending, and columns matches the final width
C9_Witness ==
    /\ phase = "mounted"
    /\ ~Forced
    /\ resizes = MaxResizes
    /\ ~timer
    /\ ~notify
    /\ pc = "idle"
    /\ columns < maxColumns
    /\ IsClampedQuotient(columns, containerWidth, columnWidth, maxColumns)

\* C10: 1 <= columns <= maxColumns in every reachable state.
C10_ColumnsWithinBounds == 1 <= columns /\ columns <= maxColumns

\* C10 witness: a computed column count at the lower bound, below maxColumns
C10_Witness ==
    /\ setColumnsDone
    /\ ~Forced
    /\ maxColumns = 3
    /\ columns = 1
    /\ containerWidth < columnWidth

\* C11: after mount, unless the component is destroyed, ready eventually
\* becomes true, with force-columns (the first callback disconnects the
\* observer) and without.
C11_ReadyEventually == (phase = "mounted") ~> (ready \/ phase = "destroyed")

\* C11 witness: still mounted and ready after a forced first callback, which
\* has disconnected the observer
C11_Witness ==
    /\ phase = "mounted"
    /\ Forced
    /\ ready
    /\ observer = "disconnected"
    /\ ~timer

\* C12: once ready is true it is true in every later state, whatever resize
\* notifications, creature replacements, dice resets or image generations
\* follow.
C12_ReadyMonotonic == [][ready => ready']_vars

\* C12 witness: ready, after a replacement of the creature and a resize, with
\* a generation under way
C12_Witness ==
    /\ ready
    /\ phase = "mounted"
    /\ monster.forceColumns = Bool(TRUE)
    /\ image = OldImage
    /\ resizes > 0
    /\ genPc = "generating"

\* the file the claimed priority names: the creature's path if present; else,
\* with a note, the file the note resolves to or none; else the context when
\* it ends in ".md"; else none
ClaimedSourceFile ==
    IF path.t # "undefined" THEN path
    ELSE IF note.t # "undefined"
         THEN GetFirstLinkpathDest(NotePathOf(note), context)
    ELSE IF context.s # <<>> /\ EndsWith(context.s, <<".", "m", "d">>)
         THEN context
    ELSE Null

\* C13: when the generation throws, or no photo is selected, the creature's
\* image and the creature store are unchanged, no frontmatter update is
\* attempted, and the handler ends without rejecting.
C13_FailedGenerationChangesNothing ==
    [][(genOutcome = "none" /\ genOutcome' \in {"threw", "noPhoto"}) =>
         /\ image' = image
         /\ monsterStore' = monsterStore
         /\ frontmatter' = frontmatter
         /\ genPc' = "idle"
         /\ sourceFile' = Null
         /\ ~rejected']_vars

\* C13 witness: a generation has thrown for a creature that has an image and
\* a file; both are as they were
C13_Witness ==
    /\ genOutcome = "threw"
    /\ genPc = "idle"
    /\ image = OldImage
    /\ path = PathFile
    /\ monsterStore.image = OldImage
    /\ frontmatter = [f \in Files |-> Undefined]
    /\ ~rejected

\* C14: applyGeneratedImage first sets the creature's image (and the store)
\* to the generated path, then updates the frontmatter of at most one file,
\* the one the strict priority path, note, context names, and of none when
\* the priority names none.
C14_ImageThenOneFileByPriority ==
    [][/\ (genOutcome = "none" /\ genOutcome' = "returned") =>
            /\ image' \in GeneratedPaths
            /\ monsterStore' = [monster |-> monster, image |-> image']
            /\ frontmatter' = frontmatter
            /\ IF ClaimedSourceFile = Null
               THEN genPc' = "idle" /\ sourceFile' = Null
               ELSE /\ genPc' = "updating"
                    /\ sourceFile' = ClaimedSourceFile
                    /\ imagePath' = image'
       /\ \A f \in Files :
            frontmatter'[f] # frontmatter[f] =>
                /\ genPc = "updating"
                /\ f = sourceFile
                /\ frontmatter'[f] = imagePath]_vars

\* C14 witness: a creature without a path whose note does not resolve,
\* rendered in a markdown file: the image is set and no file is updated
C14_Witness ==
    /\ genOutcome = "returned"
    /\ genPc = "idle"
    /\ path = Undefined
    /\ note = DeadLink
    /\ context = ContextFile
    /\ image \in GeneratedPaths
    /\ frontmatter = [f \in Files |-> Undefined]

\* C15: the reset store is true only between the two sets of a Reset Dice
\* action: it is false initially and after every completed action, and, the
\* item existing only when canDice is true, always false when dice are
\* disabled.
C15_ResetIsPulse ==
    /\ reset <=> pc = "resetDice"
    /\ canDice # Bool(TRUE) => ~reset

\* C15 witness: a Reset Dice action has set the store and not yet cleared it
C15_Witness ==
    /\ reset
    /\ pc = "resetDice"
    /\ canDice = Bool(TRUE)
    /\ phase = "mounted"

====
